---- MODULE Spec2Model ----
(***************************************************************************)
(* Model of the clustered proxy of src/src/server.ts: the dispatcher       *)
(* (master) request handler with its rate limiter, response cache and      *)
(* round-robin worker selection, the worker message handler with its       *)
(* upstream call, and the message channel between the two.                 *)
(***************************************************************************)
EXTENDS Integers, Sequences, FiniteSets, TLC

\* ------------------------------------------------------------------ bounds
\* Number of client requests the listening socket accepts in one behaviour.
MaxArrivals == 2
\* Largest value of the clock (Date.now()), in window units.
MaxTime == 2
\* Number of client requests accepted under GlobalConfig, whose cases need a
\* third request.
MaxGlobalArrivals == 3

\* ----------------------------------------------------------- configuration
\* A field a JavaScript object does not have.
Undefined == "undefined"

\* An optional rateLimit block that is absent (rule.rateLimit === undefined).
NoRateLimit == [present |-> FALSE, enabled |-> FALSE, maxRequests |-> 0, timeWindow |-> 0]
\* An optional cache block that is absent.
NoCache == [present |-> FALSE, enabled |-> FALSE, maxSize |-> 0, expirationTime |-> 0]

\* The shape of config.yaml with the numbers scaled down: "/todos/1" has its
\* own (enabled) rate limit and cache, "/todos" has its own rate limit
\* switched off, and there is a global rate limit; "/missing" has no rule.
YamlConfig ==
  [ workers   |-> 2,
    upstreams |-> << [id |-> "node1", url |-> "http://node1"],
                     [id |-> "node2", url |-> "http://node2"] >>,
    rules     |-> << [ path |-> "/todos/1", upstreams |-> << "node1", "node2" >>,
                       rateLimit |-> [present |-> TRUE, enabled |-> TRUE,
                                      maxRequests |-> 1, timeWindow |-> 1],
                       cache |-> [present |-> TRUE, enabled |-> TRUE,
                                  maxSize |-> 50, expirationTime |-> 2] ],
                     [ path |-> "/todos", upstreams |-> << "node1" >>,
                       rateLimit |-> [present |-> TRUE, enabled |-> FALSE,
                                      maxRequests |-> 1, timeWindow |-> 1],
                       cache |-> NoCache ] >>,
    rateLimit |-> [present |-> TRUE, enabled |-> TRUE,
                   maxRequests |-> 2, timeWindow |-> 2],
    cache     |-> NoCache ]

\* A second configuration the schema accepts: a single worker, no global
\* rate limit, and a rule whose rate limit allows no request at all
\* (maxRequests: 0).
SingleWorkerConfig ==
  [ YamlConfig EXCEPT
      !.workers = 1,
      !.rules[2].rateLimit = [present |-> TRUE, enabled |-> TRUE,
                              maxRequests |-> 0, timeWindow |-> 1],
      !.rateLimit = NoRateLimit ]

\* A third configuration: a single worker and no rule-level settings, so
\* the global rate limit (two requests per window) and the global cache
\* (maxSize 1) govern every path.
GlobalConfig ==
  [ workers   |-> 1,
    upstreams |-> << [id |-> "node1", url |-> "http://node1"] >>,
    rules     |-> << [ path |-> "/todos/1", upstreams |-> << "node1" >>,
                       rateLimit |-> NoRateLimit, cache |-> NoCache ],
                     [ path |-> "/todos", upstreams |-> << "node1" >>,
                       rateLimit |-> NoRateLimit, cache |-> NoCache ] >>,
    rateLimit |-> [present |-> TRUE, enabled |-> TRUE,
                   maxRequests |-> 2, timeWindow |-> 1],
    cache     |-> [present |-> TRUE, enabled |-> TRUE,
                   maxSize |-> 1, expirationTime |-> 2] ]

\* A configuration with a duplicate path and a rule without upstreams: the
\* first "/todos/1" rule has a rate limit and a cache and forwards to node1,
\* the later "/todos/1" rule has neither and names node2, "/todos" lists no
\* upstream at all.
DuplicatePathConfig ==
  [ workers   |-> 1,
    upstreams |-> << [id |-> "node1", url |-> "http://node1"],
                     [id |-> "node2", url |-> "http://node2"] >>,
    rules     |-> << [ path |-> "/todos/1", upstreams |-> << "node1" >>,
                       rateLimit |-> [present |-> TRUE, enabled |-> TRUE,
                                      maxRequests |-> 1, timeWindow |-> 1],
                       cache |-> [present |-> TRUE, enabled |-> TRUE,
                                  maxSize |-> 50, expirationTime |-> 1] ],
                     [ path |-> "/todos", upstreams |-> << >>,
                       rateLimit |-> NoRateLimit, cache |-> NoCache ],
                     [ path |-> "/todos/1", upstreams |-> << "node2" >>,
                       rateLimit |-> NoRateLimit, cache |-> NoCache ] >>,
    rateLimit |-> NoRateLimit,
    cache     |-> NoCache ]

\* A configuration whose upstream ids go wrong: "/todos/1" names the upstream
\* whose id is the empty string (the schema takes any string as an id),
\* "/todos" names an upstream that is not configured.
EmptyIdConfig ==
  [ workers   |-> 1,
    upstreams |-> << [id |-> "", url |-> "http://node0"],
                     [id |-> "node1", url |-> "http://node1"] >>,
    rules     |-> << [ path |-> "/todos/1", upstreams |-> << "" >>,
                       rateLimit |-> NoRateLimit, cache |-> NoCache ],
                     [ path |-> "/todos", upstreams |-> << "node2" >>,
                       rateLimit |-> NoRateLimit, cache |-> NoCache ] >>,
    rateLimit |-> NoRateLimit,
    cache     |-> NoCache ]

\* A configuration for cache precedence: the global cache is enabled,
\* "/todos/1" has its own cache block with enabled: false, "/todos" has none.
PrecedenceConfig ==
  [ workers   |-> 1,
    upstreams |-> << [id |-> "node1", url |-> "http://node1"] >>,
    rules     |-> << [ path |-> "/todos/1", upstreams |-> << "node1" >>,
                       rateLimit |-> NoRateLimit,
                       cache |-> [present |-> TRUE, enabled |-> FALSE,
                                  maxSize |-> 50, expirationTime |-> 2] ],
                     [ path |-> "/todos", upstreams |-> << "node1" >>,
                       rateLimit |-> NoRateLimit, cache |-> NoCache ] >>,
    rateLimit |-> NoRateLimit,
    cache     |-> [present |-> TRUE, enabled |-> TRUE,
                   maxSize |-> 50, expirationTime |-> 2] ]

\* The number of client requests one behaviour accepts under cfg.
ArrivalCap(cfg) == IF cfg = GlobalConfig THEN MaxGlobalArrivals ELSE MaxArrivals

\* Client identities (req.socket.remoteAddress).
Clients == {"10.0.0.1", "10.0.0.2"}
\* Request paths (req.url).
Paths == {"/todos/1", "/todos", "/missing"}
\* Bodies an upstream may answer with.
Bodies == {"", "d1"}

VARIABLES
  config,               \* config.config, fixed at startup
  now,                  \* Date.now()
  clientRequestCounts,  \* Map<clientIp, ClientInfo>
  cache,                \* Map<url, CacheEntry>
  workerIndex,          \* round-robin cursor
  connected,            \* worker.isConnected(), per worker of WORKER_POOL
  serving,              \* the worker registered process.on("message")
  listeners,            \* per worker, the "message" listeners registered, in order
  reqs,                 \* per request, what its handler closure captured
  res,                  \* per request, the client's http.ServerResponse
  inbox,                \* per worker, descriptors sent and not yet received
  upstreamCalls,        \* per worker, upstream calls in flight
  outbox                \* per worker, replies sent and not yet received

vars == << config, now, clientRequestCounts, cache, workerIndex, connected,
           serving, listeners, reqs, res, inbox, upstreamCalls, outbox >>

Workers == 0 .. (config.workers - 1)

\* ------------------------------------------------------------ rate limiter
\* Mutant of FindRule: the last rule with that path.
FindRuleLast(rules, url) ==
  LET hits == { i \in 1 .. Len(rules) : rules[i].path = url }
  IN  IF hits = {} THEN 0 ELSE CHOOSE i \in hits : \A j \in hits : i >= j

\* config.config.server.rules.find((e) => e.path === req.url): index of the
\* first rule with that path, 0 when there is none.
FindRule(rules, url) ==
  LET hits == { i \in 1 .. Len(rules) : rules[i].path = url }
  IN  IF hits = {} THEN 0 ELSE CHOOSE i \in hits : \A j \in hits : i <= j

\* Mutant of ActiveRateLimit: globalRateLimit || pathRateLimit.
ActiveRateLimitGlobalFirst(cfg, url) ==
  LET i == FindRule(cfg.rules, url)
  IN  IF cfg.rateLimit.present \/ i = 0
        THEN cfg.rateLimit ELSE cfg.rules[i].rateLimit

\* pathRateLimit || globalRateLimit
ActiveRateLimit(cfg, url) ==
  LET i == FindRule(cfg.rules, url)
  IN  IF i # 0 /\ cfg.rules[i].rateLimit.present
        THEN cfg.rules[i].rateLimit ELSE cfg.rateLimit

\* pathCacheConfig || globalCacheConfig
ActiveCacheConfig(cfg, url) ==
  LET i == FindRule(cfg.rules, url)
  IN  IF i # 0 /\ cfg.rules[i].cache.present
        THEN cfg.rules[i].cache ELSE cfg.cache

\* activeRateLimit?.enabled
RateLimitOn(rl) == rl.present /\ rl.enabled

\* activeCacheConfig?.enabled
CacheOn(cc) == cc.present /\ cc.enabled

\* No stored ClientInfo for a client.
NoClientInfo == [present |-> FALSE, lastRequestTime |-> 0, requestCount |-> 0]

\* clientRequestCounts.get(clientIp) || { lastRequestTime: now, requestCount: 0 }
ClientInfoAt(stored, t) ==
  IF stored.present THEN stored
  ELSE [present |-> FALSE, lastRequestTime |-> t, requestCount |-> 0]

\* Mutant of WindowRoll: the operands of the subtraction swapped.
WindowRollSwapped(ci, rl, t) ==
  IF ci.lastRequestTime - t > rl.timeWindow
    THEN [ci EXCEPT !.requestCount = 0] ELSE ci

\* Mutant of WindowRoll: the count is never reset.
WindowRollNever(ci, rl, t) == ci

\* if (now - clientInfo.lastRequestTime > timeWindow) clientInfo.requestCount = 0
WindowRoll(ci, rl, t) ==
  IF t - ci.lastRequestTime > rl.timeWindow
    THEN [ci EXCEPT !.requestCount = 0] ELSE ci

\* Mutant of OverLimit: > for >=.
OverLimitOffByOne(ci, rl) == ci.requestCount > rl.maxRequests

\* if (clientInfo.requestCount >= activeRateLimit.maxRequests) -> 429
OverLimit(ci, rl) == ci.requestCount >= rl.maxRequests

\* Mutant of Counted: the increment forgotten.
CountedNoIncrement(ci, t) ==
  [present |-> TRUE, lastRequestTime |-> t, requestCount |-> ci.requestCount]

\* clientInfo.lastRequestTime = now; clientInfo.requestCount++
Counted(ci, t) ==
  [present |-> TRUE, lastRequestTime |-> t, requestCount |-> ci.requestCount + 1]

\* Mutant of RateLimit: a rejection stamps and stores the ClientInfo too.
RateLimitStampsRejection(stored, rl, t) ==
  IF ~RateLimitOn(rl)
    THEN [rejected |-> FALSE, info |-> stored]
    ELSE LET rolled == WindowRoll(ClientInfoAt(stored, t), rl, t)
         IN  IF OverLimit(rolled, rl)
               THEN [rejected |-> TRUE,
                     info |-> [rolled EXCEPT !.present = TRUE, !.lastRequestTime = t]]
               ELSE [rejected |-> FALSE, info |-> Counted(rolled, t)]

\* The rate limiter's verdict for a request of client ip to url at time t:
\* whether it is rejected and the ClientInfo stored for ip afterwards.  A
\* stored ClientInfo is mutated in place, so a window roll stays applied on
\* rejection; a fresh one is stored only by clientRequestCounts.set.
RateLimit(stored, rl, t) ==
  IF ~RateLimitOn(rl)
    THEN [rejected |-> FALSE, info |-> stored]
    ELSE LET rolled == WindowRoll(ClientInfoAt(stored, t), rl, t)
         IN  IF OverLimit(rolled, rl)
               THEN [rejected |-> TRUE,
                     info |-> IF stored.present THEN rolled ELSE stored]
               ELSE [rejected |-> FALSE, info |-> Counted(rolled, t)]

\* ------------------------------------------------------------------- cache
\* No CacheEntry stored under a url.
NoEntry == [present |-> FALSE, data |-> "", expirationTime |-> 0]

\* The fallback of `activeCacheConfig.expirationTime || 60000`.
DefaultExpirationTime == 60000

\* cachedResponse && cachedResponse.expirationTime > now
CacheHitAtExpiry(entry, t) == entry.present /\ entry.expirationTime >= t

CacheHit(entry, t) == entry.present /\ entry.expirationTime > t

CacheLookupKeepsExpired(c, cc, url, t) ==
  IF CacheOn(cc) /\ CacheHit(c[url], t)
    THEN [hit |-> TRUE, data |-> c[url].data, cache |-> c]
    ELSE [hit |-> FALSE, data |-> "", cache |-> c]

CacheLookupConsumes(c, cc, url, t) ==
  IF CacheOn(cc) /\ CacheHit(c[url], t)
    THEN [hit |-> TRUE, data |-> c[url].data,
          cache |-> [c EXCEPT ![url] = NoEntry]]
    ELSE IF CacheOn(cc)
      THEN [hit |-> FALSE, data |-> "", cache |-> [c EXCEPT ![url] = NoEntry]]
      ELSE [hit |-> FALSE, data |-> "", cache |-> c]

\* The cache check of the request handler: a hit serves the entry; otherwise
\* cache.delete(req.url).  Nothing is read or deleted with caching off.
CacheLookup(c, cc, url, t) ==
  IF ~CacheOn(cc) THEN [hit |-> FALSE, data |-> "", cache |-> c]
  ELSE IF CacheHit(c[url], t) THEN [hit |-> TRUE, data |-> c[url].data, cache |-> c]
  ELSE [hit |-> FALSE, data |-> "", cache |-> [c EXCEPT ![url] = NoEntry]]

\* JavaScript truthiness of an optional string field.
Truthy(x) == x # Undefined /\ x # ""

\* now + (activeCacheConfig.expirationTime || 60000)
ExpirationOf(cc, t) ==
  t + (IF cc.expirationTime # 0 THEN cc.expirationTime ELSE DefaultExpirationTime)

\* if (activeCacheConfig?.enabled && reply.data) cache.set(req.url, ...), with
\* the url, now and cache configuration the listener's request captured.
CacheStore(c, reply, rq) ==
  LET cc == ActiveCacheConfig(config, rq.url)
  IN  IF CacheOn(cc) /\ Truthy(reply.data)
        THEN [c EXCEPT ![rq.url] = [present |-> TRUE, data |-> reply.data,
                                    expirationTime |-> ExpirationOf(cc, rq.now)]]
        ELSE c

\* --------------------------------------------------------------- responses
\* A client response nothing was written to yet.  replyOf is not program
\* state: it records for which request the worker produced the reply that
\* completed the response (0: the response was not completed by a reply).
Open == [ended |-> FALSE, statusCode |-> 0, body |-> "", replyOf |-> 0]

\* Mutant of End: a later end replaces what the client got.
EndOverwrites(r, status, body, of) ==
  [ended |-> TRUE, statusCode |-> status, body |-> body, replyOf |-> of]

\* res.statusCode = status; res.end(body): the first end is what the client got.
End(r, status, body, of) ==
  IF r.ended THEN r
  ELSE [ended |-> TRUE, statusCode |-> status, body |-> body, replyOf |-> of]

\* parseInt(reply.errorCode)
ParseInt(code) ==
  CASE code = "400" -> 400 [] code = "404" -> 404 [] code = "429" -> 429
    [] code = "500" -> 500 [] OTHER -> 0

\* ------------------------------------------------------------- round robin
NextIndexStuck(i, n) == i % n

\* Mutant of NextIndex: the cursor is not wrapped.
NextIndexUnbounded(i, n) == i + 1

\* workerIndex = (workerIndex + 1) % WORKER_POOL.length
NextIndex(i, n) == (i + 1) % n

\* ---------------------------------------------------------------- messages
\* The descriptor the dispatcher builds for a request.
Payload(url) ==
  [requestType |-> "http", headers |-> "{}", body |-> "", url |-> url]

\* The correlationId a descriptor or a reply carries.
CorrelationId(msg) ==
  IF "correlationId" \in DOMAIN msg THEN msg.correlationId ELSE Undefined

ErrorReplyWithData(code, text) == [data |-> "", error |-> text, errorCode |-> code]

ErrorReply(code, text) == [data |-> Undefined, error |-> text, errorCode |-> code]

DataReply(data) == [data |-> data, error |-> Undefined, errorCode |-> Undefined]

\* --------------------------------------------------------------- initially
Startup(cfg) ==
  /\ config = cfg
  /\ now = 0
  /\ clientRequestCounts = [c \in Clients |-> NoClientInfo]
  /\ cache = [p \in Paths |-> NoEntry]
  /\ workerIndex = 0
  /\ connected = [w \in Workers |-> TRUE]
  /\ serving = [w \in Workers |-> TRUE]
  /\ listeners = [w \in Workers |-> << >>]
  /\ reqs = << >>
  /\ res = << >>
  /\ inbox = [w \in Workers |-> << >>]
  /\ upstreamCalls = [w \in Workers |-> {}]
  /\ outbox = [w \in Workers |-> << >>]

\* The state after construction when rootConfigSchema.parseAsync throws in
\* the workers of the set failed: each of them sends the reply 500 "Config
\* Parsing Error" (produced for no request) and returns from createServer
\* without registering process.on("message"); its process stays up, the
\* setInterval of createServer keeping it alive, so it stays connected.
StartupFailed(cfg, failed) ==
  /\ config = cfg
  /\ now = 0
  /\ clientRequestCounts = [c \in Clients |-> NoClientInfo]
  /\ cache = [p \in Paths |-> NoEntry]
  /\ workerIndex = 0
  /\ connected = [w \in Workers |-> TRUE]
  /\ serving = [w \in Workers |-> w \notin failed]
  /\ listeners = [w \in Workers |-> << >>]
  /\ reqs = << >>
  /\ res = << >>
  /\ inbox = [w \in Workers |-> << >>]
  /\ upstreamCalls = [w \in Workers |-> {}]
  /\ outbox = [w \in Workers |->
                 IF w \in failed
                   THEN << [msg |-> ErrorReply("500", "Config Parsing Error"),
                            req |-> 0] >>
                   ELSE << >>]

\* The server is started with one of the two configurations.
Init == Startup(YamlConfig) \/ Startup(SingleWorkerConfig)

\* The server is started with the global-only configuration.
InitGlobal == Startup(GlobalConfig)

\* The server is started with one of the two configurations that exercise
\* rule and upstream resolution.
InitResolution == Startup(DuplicatePathConfig) \/ Startup(EmptyIdConfig)

\* The server is started with the configuration of config.yaml and the
\* configuration validation of worker 0 fails.
InitStartupFailure == StartupFailed(YamlConfig, {0})

\* The server is started with the cache-precedence configuration.
InitPrecedence == Startup(PrecedenceConfig)

\* Date.now() advances.
Tick ==
  /\ now < MaxTime
  /\ now' = now + 1
  /\ UNCHANGED << config, serving, clientRequestCounts, cache, workerIndex, connected,
                  listeners, reqs, res, inbox, upstreamCalls, outbox >>

\* -------------------------------------------------------------- dispatcher
\* Mutant of Outcome: a descriptor is sent whether or not the selected worker
\* is connected.
OutcomeIgnoresConnection(rejected, hit, isConnected) ==
  IF rejected THEN "rejected"
  ELSE IF hit THEN "cached"
  ELSE "dispatched"

\* Mutant of Outcome: the cache is consulted before the rate limiter.
OutcomeCacheFirst(rejected, hit, isConnected) ==
  IF hit THEN "cached"
  ELSE IF rejected THEN "rejected"
  ELSE IF ~isConnected THEN "unavailable"
  ELSE "dispatched"

\* The order of the request handler's early returns: the rate limiter, then
\* the cache, then worker selection and its isConnected() check.
Outcome(rejected, hit, isConnected) ==
  IF rejected THEN "rejected"
  ELSE IF hit THEN "cached"
  ELSE IF ~isConnected THEN "unavailable"
  ELSE "dispatched"

\* Mutant of HandleRequest: a request answered from the cache or 503 gives
\* its unit of quota back.
HandleRequestRefundsHit(ip, url) ==
  LET id == Len(reqs) + 1
      rq == [clientIp |-> ip, url |-> url, now |-> now]
      rl == RateLimit(clientRequestCounts[ip], ActiveRateLimit(config, url), now)
      lk == CacheLookup(cache, ActiveCacheConfig(config, url), url, now)
      worker == workerIndex
      out == Outcome(rl.rejected, lk.hit, connected[worker])
  IN  /\ Len(reqs) < ArrivalCap(config)
      /\ reqs' = Append(reqs, rq)
      /\ clientRequestCounts' =
           IF out = "dispatched" \/ out = "rejected"
             THEN [clientRequestCounts EXCEPT ![ip] = rl.info]
             ELSE clientRequestCounts
      /\ UNCHANGED << config, serving, now, connected, upstreamCalls, outbox >>
      /\ CASE out = "rejected" ->
                /\ res' = Append(res, End(Open, 429, "Too Many Requests", 0))
                /\ UNCHANGED << cache, workerIndex, listeners, inbox >>
           [] out = "cached" ->
                /\ res' = Append(res, End(Open, 200, lk.data, 0))
                /\ cache' = lk.cache
                /\ UNCHANGED << workerIndex, listeners, inbox >>
           [] out = "unavailable" ->
                /\ cache' = lk.cache
                /\ workerIndex' = NextIndex(workerIndex, config.workers)
                /\ res' = Append(res, End(Open, 503, "Service Unavailable", 0))
                /\ UNCHANGED << listeners, inbox >>
           [] out = "dispatched" ->
                /\ cache' = lk.cache
                /\ workerIndex' = NextIndex(workerIndex, config.workers)
                /\ res' = Append(res, Open)
                /\ inbox' = [inbox EXCEPT ![worker] =
                               Append(@, [msg |-> Payload(url), req |-> id])]
                /\ listeners' = [listeners EXCEPT ![worker] = Append(@, id)]

\* The request handler of http.createServer, for a request of client ip to url.
HandleRequest(ip, url) ==
  LET id == Len(reqs) + 1
      rq == [clientIp |-> ip, url |-> url, now |-> now]
      rl == RateLimit(clientRequestCounts[ip], ActiveRateLimit(config, url), now)
      lk == CacheLookup(cache, ActiveCacheConfig(config, url), url, now)
      worker == workerIndex
      out == Outcome(rl.rejected, lk.hit, connected[worker])
  IN  /\ Len(reqs) < ArrivalCap(config)
      /\ reqs' = Append(reqs, rq)
      /\ clientRequestCounts' = [clientRequestCounts EXCEPT ![ip] = rl.info]
      /\ UNCHANGED << config, serving, now, connected, upstreamCalls, outbox >>
      /\ CASE out = "rejected" ->
                /\ res' = Append(res, End(Open, 429, "Too Many Requests", 0))
                /\ UNCHANGED << cache, workerIndex, listeners, inbox >>
           [] out = "cached" ->
                /\ res' = Append(res, End(Open, 200, lk.data, 0))
                /\ cache' = lk.cache
                /\ UNCHANGED << workerIndex, listeners, inbox >>
           [] out = "unavailable" ->
                /\ cache' = lk.cache
                /\ workerIndex' = NextIndex(workerIndex, config.workers)
                /\ res' = Append(res, End(Open, 503, "Service Unavailable", 0))
                /\ UNCHANGED << listeners, inbox >>
           [] out = "dispatched" ->
                /\ cache' = lk.cache
                /\ workerIndex' = NextIndex(workerIndex, config.workers)
                /\ res' = Append(res, Open)
                /\ inbox' = [inbox EXCEPT ![worker] =
                               Append(@, [msg |-> Payload(url), req |-> id])]
                /\ listeners' = [listeners EXCEPT ![worker] = Append(@, id)]

\* One "message" listener of a worker running on a reply: the listener that
\* the handler of request id registered.
OnMessage(st, id, m) ==
  IF Truthy(m.msg.errorCode)
    THEN [st EXCEPT !.res[id] = End(@, ParseInt(m.msg.errorCode), m.msg.error, m.req)]
    ELSE [ cache |-> CacheStore(st.cache, m.msg, reqs[id]),
           res   |-> [st.res EXCEPT ![id] =
                        End(@, 200, IF Truthy(m.msg.data) THEN m.msg.data ELSE "", m.req)] ]

\* The listeners ls run on one reply, in the order they were registered.
RECURSIVE Emit(_, _, _)
Emit(st, ls, m) ==
  IF ls = << >> THEN st ELSE Emit(OnMessage(st, Head(ls), m), Tail(ls), m)

\* A reply of worker w reaches the dispatcher: the worker emits "message" and
\* every listener registered on it runs.
DispatcherReceive(w) ==
  /\ outbox[w] # << >>
  /\ LET st == Emit([cache |-> cache, res |-> res], listeners[w], Head(outbox[w]))
     IN  /\ cache' = st.cache
         /\ res' = st.res
  /\ outbox' = [outbox EXCEPT ![w] = Tail(@)]
  /\ UNCHANGED << config, serving, now, clientRequestCounts, workerIndex, connected,
                  listeners, reqs, inbox, upstreamCalls >>

\* Mutant of Sweep: the sweep empties the cache.
SweepAll ==
  /\ cache' = [p \in Paths |-> NoEntry]
  /\ UNCHANGED << config, serving, now, clientRequestCounts, workerIndex,
                  connected, listeners, reqs, res, inbox, upstreamCalls, outbox >>

\* The setInterval sweep: every entry with expirationTime <= now is deleted.
Sweep ==
  /\ cache' = [p \in Paths |->
                 IF cache[p].present /\ cache[p].expirationTime <= now
                   THEN NoEntry ELSE cache[p]]
  /\ UNCHANGED << config, serving, now, clientRequestCounts, workerIndex, connected,
                  listeners, reqs, res, inbox, upstreamCalls, outbox >>

\* ------------------------------------------------------------------ worker
\* Mutant of ValidMessage: a schema that wants a non-empty body.
ValidMessageNonEmptyBody(msg) ==
  /\ {"requestType", "headers", "body", "url"} \subseteq DOMAIN msg
  /\ msg.requestType = "http"
  /\ msg.headers # Undefined /\ msg.body # "" /\ msg.url # Undefined

\* workerMessageSchema.parseAsync(JSON.parse(message)) succeeds.
ValidMessage(msg) ==
  /\ {"requestType", "headers", "body", "url"} \subseteq DOMAIN msg
  /\ msg.requestType = "http"
  /\ msg.headers # Undefined /\ msg.body # Undefined /\ msg.url # Undefined

FindUpstreamAny(ups, id) == IF ups = << >> THEN 0 ELSE 1

\* config.server.upstreams.find((e) => e.id === upstreamId): its index or 0.
FindUpstream(ups, id) ==
  LET hits == { i \in 1 .. Len(ups) : ups[i].id = id }
  IN  IF hits = {} THEN 0 ELSE CHOOSE i \in hits : \A j \in hits : i <= j

ResolveLastUpstream(cfg, msg) ==
  IF ~ValidMessage(msg)
    THEN [forward |-> FALSE, reply |-> ErrorReply("400", "Message Parsing Error"), upstream |-> ""]
  ELSE LET i == FindRule(cfg.rules, msg.url) IN
  IF i = 0
    THEN [forward |-> FALSE, reply |-> ErrorReply("404", "Rule Not Found"), upstream |-> ""]
  ELSE IF cfg.rules[i].upstreams = << >> \/ cfg.rules[i].upstreams[1] = ""
    THEN [forward |-> FALSE, reply |-> ErrorReply("500", "Upstream ID Not Found"), upstream |-> ""]
  ELSE IF FindUpstream(cfg.upstreams, cfg.rules[i].upstreams[1]) = 0
    THEN [forward |-> FALSE, reply |-> ErrorReply("500", "Upstream Not Found"), upstream |-> ""]
  ELSE [forward |-> TRUE, reply |-> DataReply(""),
        upstream |-> cfg.rules[i].upstreams[Len(cfg.rules[i].upstreams)]]

\* What the worker's message handler does with a descriptor before any
\* upstream call: the error reply it sends, or the upstream it forwards to.
Resolve(cfg, msg) ==
  IF ~ValidMessage(msg)
    THEN [forward |-> FALSE, reply |-> ErrorReply("400", "Message Parsing Error"), upstream |-> ""]
  ELSE LET i == FindRule(cfg.rules, msg.url) IN
  IF i = 0
    THEN [forward |-> FALSE, reply |-> ErrorReply("404", "Rule Not Found"), upstream |-> ""]
  ELSE IF cfg.rules[i].upstreams = << >> \/ cfg.rules[i].upstreams[1] = ""
    THEN [forward |-> FALSE, reply |-> ErrorReply("500", "Upstream ID Not Found"), upstream |-> ""]
  ELSE IF FindUpstream(cfg.upstreams, cfg.rules[i].upstreams[1]) = 0
    THEN [forward |-> FALSE, reply |-> ErrorReply("500", "Upstream Not Found"), upstream |-> ""]
  ELSE [forward |-> TRUE, reply |-> DataReply(""), upstream |-> cfg.rules[i].upstreams[1]]

\* process.on("message") of worker w: the next descriptor is received and
\* either answered with an error reply or forwarded with http.request.
WorkerReceive(w) ==
  /\ connected[w]
  /\ serving[w]
  /\ inbox[w] # << >>
  /\ LET m == Head(inbox[w])
         r == Resolve(config, m.msg)
     IN  IF r.forward
           THEN /\ upstreamCalls' = [upstreamCalls EXCEPT ![w] =
                      @ \cup {[req |-> m.req, path |-> m.msg.url, upstream |-> r.upstream]}]
                /\ UNCHANGED outbox
           ELSE /\ outbox' = [outbox EXCEPT ![w] = Append(@, [msg |-> r.reply, req |-> m.req])]
                /\ UNCHANGED upstreamCalls
  /\ inbox' = [inbox EXCEPT ![w] = Tail(@)]
  /\ UNCHANGED << config, serving, now, clientRequestCounts, cache, workerIndex, connected,
                  listeners, reqs, res >>

\* response.on("end") of an upstream call of worker w: the buffered body is
\* sent back as { data }.  Calls complete in any order.
UpstreamEnd(w, call, data) ==
  /\ connected[w]
  /\ call \in upstreamCalls[w]
  /\ upstreamCalls' = [upstreamCalls EXCEPT ![w] = @ \ {call}]
  /\ outbox' = [outbox EXCEPT ![w] = Append(@, [msg |-> DataReply(data), req |-> call.req])]
  /\ UNCHANGED << config, serving, now, clientRequestCounts, cache, workerIndex, connected,
                  listeners, reqs, res, inbox >>

\* An upstream call of worker w fails (connection refused or reset): the
\* request object has no "error" listener, so the error is thrown and the
\* worker process exits.  What it had received and not answered is lost;
\* replies it had already sent stay in the channel.
UpstreamError(w, call) ==
  /\ connected[w]
  /\ call \in upstreamCalls[w]
  /\ connected' = [connected EXCEPT ![w] = FALSE]
  /\ upstreamCalls' = [upstreamCalls EXCEPT ![w] = {}]
  /\ inbox' = [inbox EXCEPT ![w] = << >>]
  /\ UNCHANGED << config, serving, now, clientRequestCounts, cache, workerIndex,
                  listeners, reqs, res, outbox >>

\* ------------------------------------------------------------ specification
Arrive == \E ip \in Clients, url \in Paths : HandleRequest(ip, url)
Receive == \E w \in Workers : WorkerReceive(w)
Respond == \E w \in Workers : \E call \in upstreamCalls[w], data \in Bodies :
             UpstreamEnd(w, call, data)
Fail == \E w \in Workers : \E call \in upstreamCalls[w] : UpstreamError(w, call)
Deliver == \E w \in Workers : DispatcherReceive(w)

Next == Tick \/ Arrive \/ Receive \/ Respond \/ Fail \/ Deliver \/ Sweep

Spec == Init /\ [][Next]_vars

SpecGlobal == InitGlobal /\ [][Next]_vars

SpecResolution == InitResolution /\ [][Next]_vars

SpecStartupFailure == InitStartupFailure /\ [][Next]_vars

SpecPrecedence == InitPrecedence /\ [][Next]_vars

\* ------------------------------------------------------------- correlation
\* The requests whose descriptor was sent to worker w (each registered one
\* listener on w).
SentTo(w) == { listeners[w][i] : i \in 1 .. Len(listeners[w]) }

\* Request id still has something in flight on worker w that can answer it:
\* its descriptor, its upstream call or its reply.
InFlight(w, id) ==
  \/ \E i \in 1 .. Len(inbox[w]) : inbox[w][i].req = id
  \/ \E call \in upstreamCalls[w] : call.req = id
  \/ \E i \in 1 .. Len(outbox[w]) : outbox[w][i].req = id

\* C1: correlation integrity.  A client response completed by a worker reply
\* carries the reply the worker produced for that client's own request.
CorrelationIntegrity ==
  \A id \in DOMAIN res : res[id].replyOf # 0 => res[id].replyOf = id

\* C2: no dispatched client waits forever.  A request whose descriptor was
\* sent and whose client has no response yet can still be answered: its
\* descriptor, its upstream call or its reply is in flight (a worker that
\* died mid-flight would have to be covered by a timeout answering 503).
NoClientWaitsForever ==
  \A w \in Workers : \A id \in SentTo(w) :
    ~res[id].ended => InFlight(w, id)

\* C3: the pending entries of a worker are exactly the requests dispatched to
\* it and not yet answered: handling a reply removes the entry it answers.
PendingEntriesAreUnanswered ==
  \A w \in Workers :
    Len(listeners[w]) = Cardinality({ id \in SentTo(w) : ~res[id].ended })

\* C4: the descriptors sent to one worker carry pairwise different
\* correlationIds.
UniqueCorrelationIds ==
  \A w \in Workers : \A i, j \in 1 .. Len(listeners[w]) :
    i # j => CorrelationId(Payload(reqs[listeners[w][i]].url))
               # CorrelationId(Payload(reqs[listeners[w][j]].url))

\* ------------------------------------------------------------ rate limiting
\* The rate-limit configuration request id was checked against.
LimitOf(id) == ActiveRateLimit(config, reqs[id].url)

\* Request id was answered 429 by the rate limiter.
Rejected(id) ==
  res[id].ended /\ res[id].statusCode = 429 /\ res[id].replyOf = 0

\* Request id was accepted and counted by an enabled rate limit.
Accepted(id) == RateLimitOn(LimitOf(id)) /\ ~Rejected(id)

\* The requests of request k's client that arrived before k, from j on.
Since(j, k) ==
  { i \in j .. (k - 1) : reqs[i].clientIp = reqs[k].clientIp }

\* Request k arrives within the window of length timeWindow that starts at
\* request j of the same client and in which maxRequests requests of the
\* client have been accepted, all of the client's requests since j being
\* governed by the configuration of k (or by none).
QuotaUsed(j, k) ==
  LET rl == LimitOf(k) IN
  /\ j < k /\ reqs[j].clientIp = reqs[k].clientIp
  /\ RateLimitOn(rl) /\ rl.maxRequests >= 1
  /\ reqs[k].now - reqs[j].now <= rl.timeWindow
  /\ \A i \in Since(j, k) : LimitOf(i) = rl \/ ~RateLimitOn(LimitOf(i))
  /\ Cardinality({ i \in Since(j, k) : Accepted(i) }) >= rl.maxRequests

\* C5: once maxRequests requests of a client have been accepted within one
\* window of the configuration governing them, the client's next request
\* within that window is answered 429 "Too Many Requests".
RejectsBeyondMaxRequests ==
  \A k \in DOMAIN reqs : \A j \in DOMAIN reqs :
    QuotaUsed(j, k) =>
      Rejected(k) /\ res[k].body = "Too Many Requests"

\* Witness of C5: a request that found the quota of its window used.
QuotaUsedReached ==
  \E k \in DOMAIN reqs : \E j \in DOMAIN reqs : QuotaUsed(j, k) /\ Rejected(k)

\* A request arrives in this step: the request handler runs.
Arrival == Len(reqs') = Len(reqs) + 1

\* The requestCount a request of client ip at time t finds under rl, after
\* the window roll.
CountFound(ip, rl, t) ==
  LET stored == clientRequestCounts[ip] IN
  IF ~stored.present \/ t - stored.lastRequestTime > rl.timeWindow
    THEN 0 ELSE stored.requestCount

\* The arriving request is answered 429 "Too Many Requests" in this step.
RejectedNow ==
  LET id == Len(reqs') IN
  res'[id] = [ended |-> TRUE, statusCode |-> 429, body |-> "Too Many Requests",
              replyOf |-> 0]

\* The window of the arriving request's client has rolled over.
RolledOver ==
  LET rq == reqs'[Len(reqs')]
      rl == ActiveRateLimit(config, rq.url)
      stored == clientRequestCounts[rq.clientIp]
  IN  /\ RateLimitOn(rl) /\ stored.present
      /\ rq.now - stored.lastRequestTime > rl.timeWindow

\* The arriving request is accepted and opens a new window: count 1 at now.
OpensWindow ==
  LET rq == reqs'[Len(reqs')] IN
  /\ ~RejectedNow
  /\ clientRequestCounts'[rq.clientIp] =
       [present |-> TRUE, lastRequestTime |-> rq.now, requestCount |-> 1]

LimitBoundsAcceptance ==
  [][ Arrival =>
      LET rq == reqs'[Len(reqs')]
          rl == ActiveRateLimit(config, rq.url)
          found == CountFound(rq.clientIp, rl, rq.now)
      IN  RateLimitOn(rl) =>
            /\ RejectedNow <=> found >= rl.maxRequests
            /\ ~RejectedNow =>
                 clientRequestCounts'[rq.clientIp].requestCount <= rl.maxRequests
    ]_vars

\* Witness of C7: a client whose accepted requests filled the limit exactly
\* and whose next request was rejected for it.
LimitFilledReached ==
  \E j, k \in DOMAIN reqs :
    /\ j < k /\ reqs[j].clientIp = reqs[k].clientIp
    /\ Accepted(j) /\ Rejected(k)
    /\ LimitOf(k).maxRequests >= 1
    /\ clientRequestCounts[reqs[k].clientIp].requestCount = LimitOf(k).maxRequests

\* C8: a rejected request leaves lastRequestTime alone and changes
\* requestCount by nothing but the reset of the window roll that applied to
\* it; with no stored state for the client it creates none.
RejectionKeepsBookkeeping ==
  [][ Arrival /\ RejectedNow =>
      LET rq == reqs'[Len(reqs')]
          rl == ActiveRateLimit(config, rq.url)
          stored == clientRequestCounts[rq.clientIp]
      IN  clientRequestCounts' =
            IF stored.present
              THEN [clientRequestCounts EXCEPT ![rq.clientIp] =
                      [stored EXCEPT !.requestCount = CountFound(rq.clientIp, rl, rq.now)]]
              ELSE clientRequestCounts
    ]_vars

\* Witness of C8: a client with stored state was rejected after its window
\* had rolled: its stored count is 0 and its lastRequestTime is the old one.
RejectionAfterRollReached ==
  \E k \in DOMAIN reqs :
    /\ Rejected(k)
    /\ LET ck == clientRequestCounts[reqs[k].clientIp]
       IN  ck.present /\ ck.requestCount = 0 /\ ck.lastRequestTime < reqs[k].now

\* C9: a request the rate limiter rejects is answered 429 with no worker
\* selected, no descriptor sent and the cursor and the cache unchanged,
\* whether or not the cache holds an unexpired entry for its path.
RejectionPrecedesCacheAndDispatch ==
  [][ Arrival =>
      LET rq == reqs'[Len(reqs')]
          rl == ActiveRateLimit(config, rq.url)
      IN  RateLimitOn(rl) /\ CountFound(rq.clientIp, rl, rq.now) >= rl.maxRequests =>
            /\ RejectedNow
            /\ UNCHANGED << cache, workerIndex, connected, listeners, inbox,
                            upstreamCalls, outbox >>
    ]_vars

\* Witness of C9: the latest request was rejected while the cache holds an
\* unexpired entry for its path.
RejectedDespiteCacheReached ==
  /\ reqs # << >>
  /\ LET k == Len(reqs) IN
       /\ Rejected(k)
       /\ CacheOn(ActiveCacheConfig(config, reqs[k].url))
       /\ cache[reqs[k].url].present
       /\ cache[reqs[k].url].expirationTime > reqs[k].now

\* C10: the rateLimit of the rule matching the path, when it has one, alone
\* decides; otherwise the global one decides; a configuration that is absent
\* or not enabled lets the request pass and writes no client state.
RuleLimitReplacesGlobal ==
  [][ Arrival =>
      LET rq == reqs'[Len(reqs')]
          i == FindRule(config.rules, rq.url)
          own == i # 0 /\ config.rules[i].rateLimit.present
          decides(rl) ==
            IF rl.present /\ rl.enabled
              THEN RejectedNow <=> CountFound(rq.clientIp, rl, rq.now) >= rl.maxRequests
              ELSE ~RejectedNow /\ clientRequestCounts' = clientRequestCounts
      IN  IF own THEN decides(config.rules[i].rateLimit) ELSE decides(config.rateLimit)
    ]_vars

\* Witness of C10: under an enabled global limit a client made two requests
\* at the same time to a path whose rule switches limiting off; neither was
\* rejected and no state was stored for the client.
RuleSwitchOffReached ==
  \E j, k \in DOMAIN reqs :
    /\ j < k /\ reqs[j] = reqs[k]
    /\ LET i == FindRule(config.rules, reqs[k].url) IN
         /\ i # 0 /\ config.rules[i].rateLimit.present
         /\ ~config.rules[i].rateLimit.enabled
    /\ config.rateLimit.present /\ config.rateLimit.enabled
    /\ ~Rejected(j) /\ ~Rejected(k)
    /\ ~clientRequestCounts[reqs[k].clientIp].present

\* C11: rate-limit state is kept per client and path: a request rejected under
\* a limit that admits at least one request follows, within the window, an
\* accepted request of the same client to the same path; requests to other
\* paths never use up the quota of this one.
PerPathQuota ==
  \A k \in DOMAIN reqs :
    (Rejected(k) /\ LimitOf(k).maxRequests >= 1) =>
      \E j \in Since(1, k) :
        /\ reqs[j].url = reqs[k].url
        /\ Accepted(j)
        /\ reqs[k].now - reqs[j].now <= LimitOf(k).timeWindow

\* Request j opens the first window of its client, every request of the
\* client between j and k falls into that window, and request k arrives more
\* than timeWindow after j, all under one rate limit admitting a request.
AfterFirstWindow(j, k) ==
  LET rl == LimitOf(k) IN
  /\ j < k /\ reqs[j].clientIp = reqs[k].clientIp
  /\ Since(1, j) = {}
  /\ RateLimitOn(rl) /\ rl.maxRequests >= 1
  /\ \A i \in Since(j, k) :
       LimitOf(i) = rl /\ reqs[i].now - reqs[j].now <= rl.timeWindow
  /\ reqs[k].now - reqs[j].now > rl.timeWindow

\* C12: the window is fixed: a request arriving more than timeWindow after
\* the first accepted request of its window starts a fresh window and is
\* accepted, also when the client's latest accepted request is less than
\* timeWindow old.
FixedWindowResets ==
  \A k \in DOMAIN reqs : \A j \in DOMAIN reqs :
    AfterFirstWindow(j, k) => ~Rejected(k)

\* The arriving request is answered from the cache in this step: of the
\* handler's immediate answers only the cache hit has status 200.
ServedFromCache ==
  /\ Arrival
  /\ res'[Len(reqs')].ended
  /\ res'[Len(reqs')].statusCode = 200

\* Request id was answered from the cache.
Cached(id) ==
  res[id].ended /\ res[id].statusCode = 200 /\ res[id].replyOf = 0

\* C13: a response is served from the cache only out of an entry whose
\* expiration time is greater than the time of the request; an entry is never
\* served at or after its expiration time.
NoExpiredEntryServed ==
  [][ ServedFromCache =>
        LET rq == reqs'[Len(reqs')] IN
        /\ cache[rq.url].present
        /\ cache[rq.url].expirationTime > rq.now
        /\ rq.now = now
    ]_vars

\* A request has been answered from the cache.
CacheServedReached == \E k \in DOMAIN reqs : Cached(k)

\* Request j, to a cache-enabled path, was answered with a successful worker
\* reply, and time t lies before the expiration time of the entry that answer
\* stores.
AnsweredAndFresh(j, t) ==
  LET cc == ActiveCacheConfig(config, reqs[j].url) IN
  /\ CacheOn(cc)
  /\ res[j].ended /\ res[j].statusCode = 200 /\ res[j].replyOf # 0
  /\ t < ExpirationOf(cc, reqs[j].now)

\* C14: cache idempotence: once a request to a cache-enabled path has been
\* answered with a successful worker reply, every later request to that path
\* that arrives before the entry expires and passes the rate limiter is
\* answered with the same body and without a descriptor being sent.
CacheIdempotence ==
  [][ (Arrival /\ ~RejectedNow) =>
        LET k == Len(reqs') IN
        \A j \in DOMAIN reqs :
          (reqs[j].url = reqs'[k].url /\ AnsweredAndFresh(j, reqs'[k].now)) =>
            /\ res'[k].ended
            /\ res'[k].body = res[j].body
            /\ inbox' = inbox
    ]_vars

\* The arriving request, to a cache-enabled path, passes the rate limiter and
\* finds no entry or an entry whose expiration time is <= now.
MissNow ==
  LET rq == reqs'[Len(reqs')] IN
  /\ Arrival /\ ~RejectedNow
  /\ CacheOn(ActiveCacheConfig(config, rq.url))
  /\ ~(cache[rq.url].present /\ cache[rq.url].expirationTime > rq.now)

\* The arriving request is sent to the worker the cursor points at: its
\* descriptor is queued, its listener registered, its response left open.
DispatchedNow ==
  LET k == Len(reqs') IN
  /\ inbox' = [inbox EXCEPT ![workerIndex] =
                 Append(@, [msg |-> Payload(reqs'[k].url), req |-> k])]
  /\ listeners' = [listeners EXCEPT ![workerIndex] = Append(@, k)]
  /\ res'[k] = Open

\* The arriving request is answered 503 and no descriptor is sent.
UnavailableNow ==
  /\ res'[Len(reqs')] = End(Open, 503, "Service Unavailable", 0)
  /\ inbox' = inbox /\ listeners' = listeners

\* C15, as stated: on a cache-enabled path a request that passes the rate
\* limiter and finds no entry or an expired one is dispatched to a worker, the
\* expired entry having been removed.
MissIsDispatched ==
  [][ MissNow =>
        /\ DispatchedNow
        /\ cache' = [cache EXCEPT ![reqs'[Len(reqs')].url] = NoEntry]
    ]_vars

\* C15, amended: such a request is never answered from the cache and its
\* entry is removed; it is dispatched to the worker round robin selects when
\* that worker is connected and answered 503 when it is not.
MissReachesWorkerSelection ==
  [][ MissNow =>
        /\ ~ServedFromCache
        /\ cache' = [cache EXCEPT ![reqs'[Len(reqs')].url] = NoEntry]
        /\ IF connected[workerIndex] THEN DispatchedNow ELSE UnavailableNow
    ]_vars

\* A request to a cache-enabled path was answered 503.
MissUnavailableReached ==
  \E k \in DOMAIN reqs :
    /\ CacheOn(ActiveCacheConfig(config, reqs[k].url))
    /\ res[k].ended /\ res[k].statusCode = 503

\* C16: a request answered from the cache is not counted by the rate limiter:
\* the requestCount and lastRequestTime of its client are left unchanged.
CacheHitNotCounted ==
  [][ ServedFromCache =>
        LET ip == reqs'[Len(reqs')].clientIp IN
        /\ clientRequestCounts'[ip].requestCount =
             clientRequestCounts[ip].requestCount
        /\ clientRequestCounts'[ip].lastRequestTime =
             clientRequestCounts[ip].lastRequestTime
    ]_vars

\* C17: a cache hit is answered 200 with exactly the stored body; no worker
\* is selected and no descriptor sent: the round-robin cursor, the pending
\* requests of every worker and the cache contents stay as they were.
CacheHitFrame ==
  [][ ServedFromCache =>
        LET k == Len(reqs') IN
        /\ res'[k] = End(Open, 200, cache[reqs'[k].url].data, 0)
        /\ workerIndex' = workerIndex
        /\ listeners' = listeners
        /\ inbox' = inbox
        /\ cache' = cache
    ]_vars

\* A request was answered from the cache with the body its path's entry holds,
\* while the entry is still there.
StoredBodyServedReached ==
  \E k \in DOMAIN reqs :
    /\ Cached(k)
    /\ cache[reqs[k].url].present
    /\ res[k].body = cache[reqs[k].url].data

\* The paths that have an entry in the response cache.
Entries == { p \in Paths : cache[p].present }

\* C18: maxSize bounds the cache: the cache never holds more entries than the
\* maxSize of the cache configuration in effect for any path it holds.
CacheWithinMaxSize ==
  \A p \in Entries :
    Cardinality(Entries) <= ActiveCacheConfig(config, p).maxSize

\* The reply at the head of worker w's outbox is handled in this step.
Handled(w) == outbox[w] # << >> /\ outbox'[w] = Tail(outbox[w])

\* C19: when the reply produced for a request is handled, the client of that
\* request has the reply's errorCode as numeric status and its error text as
\* body, the cache being left as it was, if errorCode is set, and status 200
\* with the reply's data as body otherwise.
ReplyAnswersItsRequest ==
  [][ \A w \in Workers :
        Handled(w) =>
          LET m == Head(outbox[w])
              r == res'[m.req]
          IN  IF Truthy(m.msg.errorCode)
                THEN /\ r.ended
                     /\ r.statusCode = ParseInt(m.msg.errorCode)
                     /\ r.body = m.msg.error
                     /\ cache' = cache
                ELSE /\ r.ended
                     /\ r.statusCode = 200
                     /\ r.body = m.msg.data
    ]_vars

\* C20: after a reply without errorCode has been handled for a request to a
\* cache-enabled path, the cache holds an entry for that path with the
\* reply's data as body and now + ttl as expiration time, now being the
\* request's time and ttl the expirationTime of the cache configuration in
\* effect; for every data, the empty body included.
SuccessfulReplyStored ==
  [][ \A w \in Workers :
        Handled(w) =>
          LET m  == Head(outbox[w])
              rq == reqs[m.req]
              cc == ActiveCacheConfig(config, rq.url)
          IN  (~Truthy(m.msg.errorCode) /\ CacheOn(cc)) =>
                cache'[rq.url] =
                  [present |-> TRUE, data |-> m.msg.data,
                   expirationTime |-> rq.now + cc.expirationTime]
    ]_vars

\* Request id was answered 503 by the dispatcher.
Unavailable(id) ==
  res[id].ended /\ res[id].statusCode = 503 /\ res[id].replyOf = 0

\* The requests that reached worker selection: neither rejected by the rate
\* limiter nor answered from the cache.
Selecting == { id \in DOMAIN reqs : ~Rejected(id) /\ ~Cached(id) }

\* The worker the k-th selection picks, for id the k-th selecting request.
PickOf(id) ==
  (Cardinality({ j \in Selecting : j <= id }) - 1) % config.workers

\* C21: round robin is fair: the k-th request reaching worker selection picks
\* worker (k-1) mod P, so after M selections the cursor is M mod P and every
\* worker was picked floor(M/P) or ceil(M/P) times.
RoundRobinFair ==
  LET M == Cardinality(Selecting)
      P == config.workers
      picked(w) == Cardinality({ id \in Selecting : PickOf(id) = w })
  IN  /\ workerIndex = M % P
      /\ \A id \in Selecting :
           IF Unavailable(id) THEN ~connected[PickOf(id)]
                              ELSE id \in SentTo(PickOf(id))
      /\ \A w \in Workers :
           /\ SentTo(w) \subseteq { id \in Selecting : PickOf(id) = w }
           /\ picked(w) \in { M \div P, (M + P - 1) \div P }

\* Both workers of a pool of two have been picked.
BothWorkersPickedReached ==
  /\ config.workers = 2
  /\ SentTo(0) # {} /\ SentTo(1) # {}

\* The arriving request reaches worker selection: it is neither rejected by
\* the rate limiter nor answered from the cache.
SelectsNow == Arrival /\ ~RejectedNow /\ ~ServedFromCache

UnknownPathAnswered404 ==
  \A id \in DOMAIN reqs :
    (FindRule(config.rules, reqs[id].url) = 0
       /\ ~Rejected(id) /\ ~Unavailable(id)) =>
      /\ \E w \in Workers : id \in SentTo(w)
      /\ res[id].ended =>
           res[id].statusCode = 404 /\ res[id].body = "Rule Not Found"

\* The first rule in declaration order whose path equals url (0: there is
\* none).
FirstMatch(rules, url) ==
  IF \A i \in DOMAIN rules : rules[i].path # url THEN 0
  ELSE CHOOSE i \in DOMAIN rules :
         /\ rules[i].path = url
         /\ \A j \in 1 .. (i - 1) : rules[j].path # url

\* Worker w takes the next descriptor from its channel in this step.
Received(w) ==
  /\ connected'[w]
  /\ inbox[w] # << >>
  /\ inbox'[w] = Tail(inbox[w])

\* With code an errorCode, worker w answers the descriptor it takes with one
\* reply of that errorCode and issues no upstream call; with code "" it
\* issues one upstream call for it and sends no reply.
ResolvesTo(w, code) ==
  LET m == Head(inbox[w]) IN
  IF code = ""
    THEN /\ outbox' = outbox
         /\ \E call \in upstreamCalls'[w] :
              /\ call.req = m.req
              /\ upstreamCalls' = [upstreamCalls EXCEPT ![w] = @ \cup {call}]
              /\ call \notin upstreamCalls[w]
    ELSE /\ upstreamCalls' = upstreamCalls
         /\ \E x \in {outbox'[w][Len(outbox'[w])]} :
              /\ outbox' = [outbox EXCEPT ![w] = Append(@, x)]
              /\ x.req = m.req
              /\ x.msg.errorCode = code

\* The four checks as stated: schema, rule, empty upstream list, first
\* upstream id not configured.
StatedCode(cfg, msg) ==
  LET i == FirstMatch(cfg.rules, msg.url) IN
  IF ~ValidMessage(msg) THEN "400"
  ELSE IF i = 0 THEN "404"
  ELSE IF cfg.rules[i].upstreams = << >> THEN "500"
  ELSE IF \A u \in DOMAIN cfg.upstreams :
            cfg.upstreams[u].id # cfg.rules[i].upstreams[1] THEN "500"
  ELSE ""

\* The same checks, the third one also failing on an empty first id.
ActualCode(cfg, msg) ==
  LET i == FirstMatch(cfg.rules, msg.url) IN
  IF ~ValidMessage(msg) THEN "400"
  ELSE IF i = 0 THEN "404"
  ELSE IF cfg.rules[i].upstreams = << >> \/ cfg.rules[i].upstreams[1] = ""
    THEN "500"
  ELSE IF \A u \in DOMAIN cfg.upstreams :
            cfg.upstreams[u].id # cfg.rules[i].upstreams[1] THEN "500"
  ELSE ""

\* C24, as stated: a worker replies 400 to a descriptor failing the schema,
\* else 404 if no rule has the url as path, else 500 if the rule lists no
\* upstream, else 500 if its first upstream id is not configured, without
\* any upstream call; it forwards exactly when all four checks pass.
ResolutionOrder ==
  [][ \A w \in Workers :
        Received(w) => ResolvesTo(w, StatedCode(config, Head(inbox[w]).msg))
    ]_vars

\* C24, amended: the third check also replies 500 when the first upstream id
\* of the rule is the empty string, configured or not.
ResolutionOrderEmptyId ==
  [][ \A w \in Workers :
        Received(w) => ResolvesTo(w, ActualCode(config, Head(inbox[w]).msg))
    ]_vars

\* A worker has replied 500 to a request whose rule names, as first upstream,
\* the configured upstream with the empty id.
EmptyIdRefusedReached ==
  \E w \in Workers : \E i \in DOMAIN outbox[w] :
    LET x == outbox[w][i]
        r == FirstMatch(config.rules, reqs[x.req].url)
    IN  /\ x.msg.errorCode = "500"
        /\ r # 0
        /\ config.rules[r].upstreams # << >>
        /\ \E u \in DOMAIN config.upstreams :
             config.upstreams[u].id = config.rules[r].upstreams[1]

\* C25: a failure on the worker's side never takes the worker down and never
\* goes unanswered or answered twice: every worker stays connected, and no
\* request has more than one reply in a worker's channel.
WorkerSurvivesFailure ==
  \A w \in Workers :
    /\ connected[w]
    /\ \A id \in SentTo(w) :
         Cardinality({ i \in DOMAIN outbox[w] : outbox[w][i].req = id }) <= 1

\* The rule a pending upstream call was made for.
RuleOf(call) == config.rules[FirstMatch(config.rules, call.path)]

UpstreamsRoundRobin ==
  \A w \in Workers : \A c1 \in upstreamCalls[w], c2 \in upstreamCalls[w] :
    ( /\ c1.req < c2.req
      /\ c1.path = c2.path
      /\ Len(RuleOf(c1).upstreams) >= 2
      /\ \A i \in (c1.req + 1) .. (c2.req - 1) :
           i \notin SentTo(w) \/ reqs[i].url # c1.path )
    => c1.upstream # c2.upstream

\* The rate limit of the first rule declared for url when that rule has one,
\* else the global one.
FirstRuleLimit(cfg, url) ==
  LET i == FirstMatch(cfg.rules, url) IN
  IF i # 0 /\ cfg.rules[i].rateLimit.present
    THEN cfg.rules[i].rateLimit ELSE cfg.rateLimit

\* C28: routing is deterministic: the dispatcher limits an arriving request
\* by the first rule declared for its path, and the worker taking its
\* descriptor resolves it by that same rule: it replies 404 exactly when no
\* rule has the path and forwards only to the first upstream of the first
\* such rule; a later rule with the same path is never used.
RoutingDeterminism ==
  [][ /\ Arrival =>
           LET rq == reqs'[Len(reqs')]
               rl == FirstRuleLimit(config, rq.url)
           IN  RejectedNow <=>
                 /\ RateLimitOn(rl)
                 /\ CountFound(rq.clientIp, rl, rq.now) >= rl.maxRequests
      /\ \A w \in Workers :
           Received(w) =>
             LET m == Head(inbox[w])
                 i == FirstMatch(config.rules, m.msg.url)
             IN  /\ m.msg.url = reqs[m.req].url
                 /\ (i = 0) <=>
                      /\ Len(outbox'[w]) = Len(outbox[w]) + 1
                      /\ outbox'[w][Len(outbox'[w])].msg.errorCode = "404"
                 /\ \A call \in upstreamCalls'[w] \ upstreamCalls[w] :
                      call.upstream = config.rules[i].upstreams[1]
    ]_vars

\* Under a rule table declaring a path twice, one request to that path is
\* being forwarded and another was rejected by the rate limiter.
DuplicatePathRoutedReached ==
  \E w \in Workers : \E call \in upstreamCalls[w] :
    /\ Cardinality({ i \in DOMAIN config.rules :
                       config.rules[i].path = call.path }) >= 2
    /\ \E k \in DOMAIN reqs : Rejected(k) /\ reqs[k].url = call.path

\* Field f of reply r is set.
IsSet(r, f) == f \in DOMAIN r /\ r[f] # Undefined

\* Exactly one of data and error is set, and errorCode is set exactly when
\* error is.
WellFormed(r) ==
  /\ IsSet(r, "data") # IsSet(r, "error")
  /\ IsSet(r, "errorCode") <=> IsSet(r, "error")

\* C29: every reply a worker sends is well-formed.
RepliesWellFormed ==
  \A w \in Workers : \A i \in DOMAIN outbox[w] : WellFormed(outbox[w][i].msg)

\* A worker's channel holds an error reply and a data reply.
BothReplyKindsReached ==
  \E w \in Workers : \E i \in DOMAIN outbox[w], j \in DOMAIN outbox[w] :
    /\ IsSet(outbox[w][i].msg, "error")
    /\ IsSet(outbox[w][j].msg, "data")

\* C30: a reply handled when no request of its worker is pending any more
\* (every request sent to the worker has its response completed, or none was
\* sent) is dropped: no client response and no cache entry changes.
UnmatchedReplyDropped ==
  [][ \A w \in Workers :
        (Handled(w) /\ \A id \in SentTo(w) : res[id].ended) =>
          /\ res' = res
          /\ cache' = cache
    ]_vars

StatusCodes == {200, 404, 429, 500, 503}

\* C32: every completed client response has a status in {200, 404, 429, 500,
\* 503}; no client receives 400, every descriptor the dispatcher builds
\* passing the worker's schema.
StatusCodesUsed ==
  /\ \A id \in DOMAIN res : res[id].ended => res[id].statusCode \in StatusCodes
  /\ \A w \in Workers : \A i \in DOMAIN inbox[w] : ValidMessage(inbox[w][i].msg)

\* Clients have been answered with a worker's 500 and with a worker's 404.
ErrorStatusesReached ==
  /\ \E id \in DOMAIN res : res[id].ended /\ res[id].statusCode = 500
  /\ \E id \in DOMAIN res : res[id].ended /\ res[id].statusCode = 404

Swept == cache' # cache /\ reqs' = reqs /\ outbox' = outbox

\* C34: a sweep removes exactly the entries whose expiration time is <= now,
\* leaves the other entries as they are, and touches neither the rate-limit
\* state nor the cursor nor any pending request; after it no expired entry
\* is left.
SweepRemovesExpiredOnly ==
  [][ Swept =>
        /\ \A p \in Paths :
             IF cache[p].present /\ cache[p].expirationTime <= now
               THEN ~cache'[p].present
               ELSE cache'[p] = cache[p]
        /\ \A p \in Paths :
             cache'[p].present => cache'[p].expirationTime > now'
        /\ UNCHANGED << clientRequestCounts, workerIndex, connected, listeners,
                        res, inbox, upstreamCalls, now >>
    ]_vars

\* An entry stored for the latest request to its path has been swept: the
\* request was answered 200 with a non-empty body by a reply, no request to
\* the path came later, and the path has no entry.
SweptEntryReached ==
  \E id \in DOMAIN reqs :
    /\ CacheOn(ActiveCacheConfig(config, reqs[id].url))
    /\ res[id].ended /\ res[id].statusCode = 200
    /\ res[id].replyOf # 0 /\ res[id].body # ""
    /\ \A k \in DOMAIN reqs : k > id => reqs[k].url # reqs[id].url
    /\ ~cache[reqs[id].url].present

\* The cache configuration of the first rule declared for url when that rule
\* has one, else the global one.
FirstRuleCache(cfg, url) ==
  LET i == FirstMatch(cfg.rules, url) IN
  IF i # 0 /\ cfg.rules[i].cache.present THEN cfg.rules[i].cache ELSE cfg.cache

\* No cache configuration is in effect for path p, or one that is not
\* enabled.
CacheOff(p) ==
  ~(FirstRuleCache(config, p).present /\ FirstRuleCache(config, p).enabled)

\* C35: the cache configuration of the rule, when it has one, alone decides:
\* a path whose effective configuration is absent or not enabled never gets
\* an entry, also with the global cache enabled; a request to it is not
\* answered from the cache and leaves every cache entry as it is; and the
\* reply produced for such a request is not stored anywhere.
DisabledCacheUntouched ==
  [][ /\ \A p \in Paths : CacheOff(p) => ~cache'[p].present
      /\ (Arrival /\ CacheOff(reqs'[Len(reqs')].url)) =>
           ~ServedFromCache /\ cache' = cache
      /\ \A w \in Workers :
           (Handled(w) /\ Head(outbox[w]).req \in DOMAIN reqs
              /\ CacheOff(reqs[Head(outbox[w]).req].url)) =>
             cache' = cache
    ]_vars

\* C36: the handling of a worker reply creates or overwrites no cache entry
\* but that of the path of the request the reply was produced for, so every
\* stored body is the data of a reply for a request to the entry's path.
ReplyStoredUnderItsPath ==
  [][ \A w \in Workers :
        (Handled(w) /\ Head(outbox[w]).req \in DOMAIN reqs) =>
          \A p \in Paths \ { reqs[Head(outbox[w]).req].url } :
            cache'[p] = cache[p]
    ]_vars

AcceptedBefore(k) ==
  { j \in 1 .. (k - 1) : reqs[j].clientIp = reqs[k].clientIp /\ Accepted(j) }

QuotaUnitKept ==
  [][ /\ Arrival =>
           LET rq == reqs'[Len(reqs')]
               rl == ActiveRateLimit(config, rq.url)
           IN  (RateLimitOn(rl) /\ ~RejectedNow) =>
                 clientRequestCounts' =
                   [clientRequestCounts EXCEPT ![rq.clientIp] =
                      [present |-> TRUE, lastRequestTime |-> rq.now,
                       requestCount |->
                         CountFound(rq.clientIp, rl, rq.now) + 1]]
      /\ ~Arrival => clientRequestCounts' = clientRequestCounts
    ]_vars

\* Under an enabled rate limit a request was answered from the cache, and
\* its client still has the unit counted at the time of the request.
QuotaKeptAfterHitReached ==
  \E k \in DOMAIN reqs :
    /\ Cached(k) /\ RateLimitOn(LimitOf(k))
    /\ clientRequestCounts[reqs[k].clientIp] =
         [present |-> TRUE, lastRequestTime |-> reqs[k].now, requestCount |-> 1]

====
